---- MODULE Spec2Model ----
(***************************************************************************)
(* ADScriptGen: the scene-log parsers (scene_selection.py and              *)
(* video_processor.py), the frame table builders organize_frames_table and *)
(* organize_existing_frames_table, the chained main of scene_selection.py, *)
(* ffmpeg_video_search (video_processor.py), two table builders running in *)
(* one working directory, and the narration bridge (script_generator.py).  *)
(*                                                                         *)
(* Numbers.  A Python float read from decimal text or obtained as i / fps  *)
(* is modelled as an exact fraction [num, den]; comparisons are done by    *)
(* cross-multiplication, so no value is rounded unless the code rounds it. *)
(* Text.  A line of the scene log is a sequence of tokens: the literal     *)
(* keywords the regular expressions look for, single digits, "." and " ".  *)
(***************************************************************************)
EXTENDS Integers, Sequences, FiniteSets, TLC

VARIABLES
    pc,             \* position of the running entry point
    entry,          \* which entry point this run executes
    log,            \* the text ffmpeg's metadata filter prints (lines)
    temp_file,      \* the temporary scene-log file: NoFile or its lines
    scene_changes,  \* detect_scene_changes' list of events
    raised,         \* the exception escaping the current call, or "none"
    video_exists,   \* os.path.exists(video_path)
    ffmpeg_available,\* whether the ffmpeg executable can be started
    attempts,       \* the external stages run so far, each with its outcome
    fps,            \* the sampling rate handed to the table builder
    frames_dir,     \* the frames directory: whether it exists, and its files
    frame_files,    \* the sorted listing of the directory's .jpg names
    frames_data,    \* the rows of the table
    timestamps,     \* the loop-local `timestamp` of each enumeration step
    csv_file,       \* <label>_frame_table.csv: NoFile or the rows written
    html_file,      \* <label>_frame_table.html: NoFile or the rows written
    result,         \* the dictionary the entry point returns, or NoResult
    prefix,         \* script_generator.main: the prefix typed, "" for none
    style_choice,   \* the tone typed at the menu
    audience_choice,\* the audience typed at the menu
    movie_style,    \* the tone selected
    target_audience,\* the audience selected
    selection_file, \* <prefix>_selected_frames.json: NoFile or <<its entries>>
    image_dir,      \* <prefix>_extracted_frames: whether it exists, each file's state
    selected_frames,\* the entries loaded from the selection document
    bridge_frames,  \* main's frames_data, the entries prepared for the call
    request,        \* the images and labels of the generation request
    api_calls,      \* calls made to the generation service
    api_raised,     \* the exception the generation call raised, or "none"
    storyline,      \* what analyze_all_frames_together returned
    story_file,     \* <prefix>_storyscript.txt: NoFile or <<header and body>>
    printed,        \* what main printed: the skips it counted, its exit message
    runs,           \* concurrent runs of the table builder: each one's state
    cwd             \* the working directory they share: each path's file

parserVars == <<log, temp_file, scene_changes, raised>>

tableVars == <<video_exists, ffmpeg_available, attempts, fps, frames_dir,
               frame_files, frames_data,
               timestamps, csv_file, html_file, result>>

bridgeVars == <<prefix, style_choice, audience_choice, movie_style,
                target_audience, selection_file, image_dir, selected_frames,
                bridge_frames, request, api_calls, api_raised, storyline,
                story_file, printed>>

runVars == <<runs, cwd>>

----------------------------------------------------------------------------
(* Bounds of the model *)

\* longest scene log of the parser specification, in lines
MaxLines == 4

\* most frames a frames directory holds
MaxFrames == 6

\* most record pairs in a scene log of the table specification
MaxEvents == 2

\* most entries in a selection document
MaxEntries == 3

----------------------------------------------------------------------------
(* Decimal numbers *)

Digits == {"0", "1", "2", "3", "4", "5", "6", "7", "8", "9"}

DigitVal(c) ==
    CASE c = "0" -> 0 [] c = "1" -> 1 [] c = "2" -> 2 [] c = "3" -> 3
      [] c = "4" -> 4 [] c = "5" -> 5 [] c = "6" -> 6 [] c = "7" -> 7
      [] c = "8" -> 8 [] c = "9" -> 9

RECURSIVE ToInt(_)
\* int() of a run of digits
ToInt(digs) ==
    IF digs = <<>> THEN 0
    ELSE 10 * ToInt(SubSeq(digs, 1, Len(digs) - 1)) + DigitVal(digs[Len(digs)])

RECURSIVE Pow10(_)
Pow10(k) == IF k = 0 THEN 1 ELSE 10 * Pow10(k - 1)

RECURSIVE Norm(_, _)
\* the value num/den in its unique form: 1.50 and 1.5 are the same float
Norm(n, d) ==
    IF d > 1 /\ n % 10 = 0 THEN Norm(n \div 10, d \div 10)
    ELSE [num |-> n, den |-> d]

\* float("<int>.<frac>")
Float(int, frac) == Norm(ToInt(int \o frac), Pow10(Len(frac)))

Zero == [num |-> 0, den |-> 1]

\* a >= b on fractions with positive denominators
Geq(a, b) == a.num * b.den >= b.num * a.den

Less(a, b) == ~Geq(a, b)

----------------------------------------------------------------------------
(* Regular expressions of the scene-log parsers *)

NoMatch == [found |-> FALSE]

RECURSIVE DigitRun(_, _)
\* \d* from position p: the length of the longest run of digits
DigitRun(line, p) ==
    IF p <= Len(line) /\ line[p] \in Digits THEN 1 + DigitRun(line, p + 1)
    ELSE 0

\* re.search(kw + r'(\d+\.?\d*)', line): the leftmost keyword followed by a
\* digit; group(1) is the digits, an optional point and the digits after it
SearchNumber(kw, line) ==
    LET starts == {p \in 1..Len(line) : line[p] = kw /\ DigitRun(line, p + 1) >= 1}
    IN  IF starts = {} THEN NoMatch
        ELSE LET p == CHOOSE x \in starts : \A y \in starts : x <= y
                 a == DigitRun(line, p + 1)
                 q == p + 1 + a
                 dot == q <= Len(line) /\ line[q] = "."
                 b == IF dot THEN DigitRun(line, q + 1) ELSE 0
             IN  [found |-> TRUE,
                  int |-> SubSeq(line, p + 1, p + a),
                  frac |-> IF dot THEN SubSeq(line, q + 1, q + b) ELSE <<>>]

\* re.search(kw + r'(\d+)', line)
SearchInt(kw, line) ==
    LET starts == {p \in 1..Len(line) : line[p] = kw /\ DigitRun(line, p + 1) >= 1}
    IN  IF starts = {} THEN NoMatch
        ELSE LET p == CHOOSE x \in starts : \A y \in starts : x <= y
             IN  [found |-> TRUE,
                  int |-> SubSeq(line, p + 1, p + DigitRun(line, p + 1))]

----------------------------------------------------------------------------
(* content.strip().split('\n') *)

IsBlank(line) == \A i \in 1..Len(line) : line[i] = " "

RECURSIVE LStrip(_)
LStrip(line) ==
    IF line # <<>> /\ line[1] = " " THEN LStrip(Tail(line)) ELSE line

RECURSIVE RStrip(_)
RStrip(line) ==
    IF line # <<>> /\ line[Len(line)] = " "
    THEN RStrip(SubSeq(line, 1, Len(line) - 1)) ELSE line

\* The file's text is its lines joined by "\n" (the empty file is one empty
\* line).  strip() removes the white space, line breaks included, at both
\* ends of the text; split('\n') of the empty text is [''].
StripSplit(content) ==
    LET keep == {i \in 1..Len(content) : ~IsBlank(content[i])}
    IN  IF keep = {} THEN << <<>> >>
        ELSE LET lo == CHOOSE x \in keep : \A y \in keep : x <= y
                 hi == CHOOSE x \in keep : \A y \in keep : x >= y
             IN  [i \in 1..(hi - lo + 1) |->
                    LET ln == content[lo + i - 1]
                        l1 == IF i = 1 THEN LStrip(ln) ELSE ln
                    IN  IF i = hi - lo + 1 THEN RStrip(l1) ELSE l1]

----------------------------------------------------------------------------
(* The parse loops *)

\* the guard below left out
HasPairNoGuard(lines, i) == TRUE

\* the guard `if i + 1 < len(lines)` (i is 1-based here)
HasPair(lines, i) == i + 1 <= Len(lines)

Parsed(events) == [error |-> "none", events |-> events]

IndexError == [error |-> "IndexError", events |-> <<>>]

\* scene_selection.detect_scene_changes: one record pair
SelectionPair(frame_line, score_line) ==
    LET pts_match == SearchNumber("pts_time:", frame_line)
        score_match == SearchNumber("scene_score=", score_line)
    IN  IF pts_match.found /\ score_match.found
        THEN << [timestamp |-> Float(pts_match.int, pts_match.frac),
                 scene_score |-> Float(score_match.int, score_match.frac)] >>
        ELSE <<>>

\* FFmpegVideoProcessor.detect_scene_changes: one record pair
ProcessorPair(frame_line, score_line) ==
    LET pts_match == SearchNumber("pts_time:", frame_line)
        frame_match == SearchInt("frame:", frame_line)
        score_match == SearchNumber("scene_score=", score_line)
    IN  IF pts_match.found /\ frame_match.found /\ score_match.found
        THEN << [timestamp |-> Float(pts_match.int, pts_match.frac),
                 frame_number |-> ToInt(frame_match.int),
                 scene_score |-> Float(score_match.int, score_match.frac)] >>
        ELSE <<>>

RECURSIVE SelectionLoop(_, _)
\* for i in range(0, len(lines), 2) of scene_selection.detect_scene_changes
SelectionLoop(lines, i) ==
    IF i > Len(lines) THEN Parsed(<<>>)
    ELSE IF ~HasPair(lines, i) THEN SelectionLoop(lines, i + 2)
    ELSE IF i + 1 > Len(lines) THEN IndexError
    ELSE LET rest == SelectionLoop(lines, i + 2)
         IN  IF rest.error # "none" THEN rest
             ELSE Parsed(SelectionPair(lines[i], lines[i + 1]) \o rest.events)

RECURSIVE ProcessorLoop(_, _)
\* for i in range(0, len(lines), 2) of FFmpegVideoProcessor.detect_scene_changes
ProcessorLoop(lines, i) ==
    IF i > Len(lines) THEN Parsed(<<>>)
    ELSE IF ~HasPair(lines, i) THEN ProcessorLoop(lines, i + 2)
    ELSE IF i + 1 > Len(lines) THEN IndexError
    ELSE LET rest == ProcessorLoop(lines, i + 2)
         IN  IF rest.error # "none" THEN rest
             ELSE Parsed(ProcessorPair(lines[i], lines[i + 1]) \o rest.events)

\* the parse of a log's text by each of the two parsers
SelectionParse(content) == SelectionLoop(StripSplit(content), 1)

ProcessorParse(content) == ProcessorLoop(StripSplit(content), 1)

----------------------------------------------------------------------------
(* Scene logs of the parser specification *)

\* lines the external tool may print, whole or garbled
LogLines ==
    { <<"frame:", "3", " ", "pts_time:", "1", ".", "5">>,
      <<"pts_time:", "0", ".", "5", "0">>,
      <<"frame:", "7", " ", "pts_time:">>,
      <<"lavfi.", "scene_score=", "0", ".", "4", "2">>,
      <<"lavfi.", "scene_score=", "1">>,
      <<>>,
      <<" ">> }

ParserLogs == UNION {[1..n -> LogLines] : n \in 1..MaxLines}

Selection == "scene_selection.detect_scene_changes"

Processor == "FFmpegVideoProcessor.detect_scene_changes"

----------------------------------------------------------------------------
(* detect_scene_changes, step by step *)

\* a path with no file (a file's text has at least one line, maybe empty)
NoFile == <<>>

\* open(temp_file, "w") / tempfile.NamedTemporaryFile(delete=False)
DetectCreateTemp ==
    /\ pc = "start"
    /\ entry \in {Selection, Processor}
    /\ temp_file' = << <<>> >>
    /\ pc' = "created"
    /\ UNCHANGED <<entry, runVars, log, scene_changes, raised, tableVars,
                   bridgeVars>>

\* subprocess.run(cmd, capture_output=True, check=True)
DetectRunFfmpeg ==
    /\ pc = "created"
    /\ \E ok \in BOOLEAN :
         IF ok
         THEN /\ temp_file' = log
              /\ pc' = "ran"
              /\ UNCHANGED raised
         ELSE /\ raised' = "CalledProcessError"
              /\ pc' = IF entry = Processor THEN "finally" ELSE "failed"
              /\ UNCHANGED temp_file
    /\ UNCHANGED <<entry, runVars, log, scene_changes, tableVars,
                   bridgeVars>>

\* content = f.read() and the parse loop
DetectParse ==
    /\ pc = "ran"
    /\ LET r == IF entry = Processor THEN ProcessorParse(temp_file)
                ELSE SelectionParse(temp_file)
       IN  IF r.error = "none"
           THEN /\ scene_changes' = r.events
                /\ pc' = IF entry = Processor THEN "finally" ELSE "parsed"
                /\ UNCHANGED raised
           ELSE /\ raised' = r.error
                /\ pc' = IF entry = Processor THEN "finally" ELSE "failed"
                /\ UNCHANGED scene_changes
    /\ UNCHANGED <<entry, runVars, log, temp_file, tableVars, bridgeVars>>

\* os.remove(temp_file) after the parse / os.unlink(tmp_output) in finally
DetectCleanUp ==
    /\ pc \in {"parsed", "finally"}
    /\ temp_file' = NoFile
    /\ pc' = IF raised = "none" THEN "done" ELSE "failed"
    /\ UNCHANGED <<entry, runVars, log, scene_changes, raised, tableVars,
                   bridgeVars>>

vars == <<pc, entry, parserVars, tableVars, bridgeVars, runVars>>

NoDir == [exists |-> FALSE, files |-> {}]

NoResult == [status |-> "none"]

\* the table builder's variables while another entry point runs
TableIdle ==
    /\ video_exists = TRUE
    /\ ffmpeg_available = TRUE
    /\ attempts = <<>>
    /\ fps = 1
    /\ frames_dir = NoDir
    /\ frame_files = <<>>
    /\ frames_data = <<>>
    /\ timestamps = <<>>
    /\ csv_file = NoFile
    /\ html_file = NoFile
    /\ result = NoResult

\* no concurrent runs: one entry point runs by itself
RunsIdle ==
    /\ runs = <<>>
    /\ cwd = <<>>

\* the narration bridge's variables while another entry point runs
BridgeIdle ==
    /\ prefix = ""
    /\ style_choice = ""
    /\ audience_choice = ""
    /\ movie_style = ""
    /\ target_audience = ""
    /\ selection_file = NoFile
    /\ image_dir = [exists |-> FALSE]
    /\ selected_frames = <<>>
    /\ bridge_frames = <<>>
    /\ request = <<>>
    /\ api_calls = 0
    /\ api_raised = "none"
    /\ storyline = <<>>
    /\ story_file = NoFile
    /\ printed = [skipped |-> 0, exit |-> ""]

InitParser ==
    /\ pc = "start"
    /\ RunsIdle
    /\ entry \in {Selection, Processor}
    /\ log \in ParserLogs
    /\ temp_file = NoFile
    /\ scene_changes = <<>>
    /\ raised = "none"
    /\ TableIdle
    /\ BridgeIdle

NextParser ==
    \/ DetectCreateTemp
    \/ DetectRunFfmpeg
    \/ DetectParse
    \/ DetectCleanUp

SpecParser == InitParser /\ [][NextParser]_vars

----------------------------------------------------------------------------
(* The frame table: organize_frames_table, organize_existing_frames_table *)

Organize == "organize_frames_table"

OrganizeExisting == "organize_existing_frames_table"

Main == "scene_selection.main"

\* the table builder that runs: main calls organize_existing_frames_table
Builder == IF entry = Main THEN OrganizeExisting ELSE entry

\* integer sampling rates; among them only fps = 8 has frames whose time lies
\* midway between two hundredths, and those times (i/8) are exact in binary
FpsValues == {0, 1, 2, 3, 8}

\* frame_%04d.jpg, the name ffmpeg gives the k-th frame it extracts
FrameName(k) == [stem |-> "frame_", number |-> k, ext |-> ".jpg"]

OtherFile == [stem |-> "notes", number |-> 0, ext |-> ".txt"]

Directory(files) == [exists |-> TRUE, files |-> files]

RECURSIVE Sorted(_)
\* sorted(names): the names share their stem and the width of their number,
\* so the order of the strings is the order of the numbers
Sorted(names) ==
    IF names = {} THEN <<>>
    ELSE LET least == CHOOSE f \in names : \A g \in names : f.number <= g.number
         IN  <<least>> \o Sorted(names \ {least})

\* sorted([f for f in os.listdir(dir) if f.endswith('.jpg')])
ListFrames(dir) == Sorted({f \in dir.files : f.ext = ".jpg"})

\* the quotient below with the index counted from 1
QuotientFromOne(i, rate) == [num |-> i + 1, den |-> rate]

\* i / fps
Quotient(i, rate) == [num |-> i, den |-> rate]

\* round(i / fps, 2): to the nearest hundredth, a tie to the even one
Round2(i, rate) ==
    LET q == (100 * i) \div rate
        r == (100 * i) % rate
        h == IF 2 * r < rate THEN q
             ELSE IF 2 * r > rate THEN q + 1
             ELSE IF q % 2 = 0 THEN q ELSE q + 1
    IN  Norm(h, 100)

\* format_timestamp(seconds): HH:MM:SS.mmm, every part cut, none rounded
format_timestamp(seconds) ==
    LET whole == seconds.num \div seconds.den
    IN  [hours |-> whole \div 3600,
         minutes |-> (whole % 3600) \div 60,
         secs |-> whole % 60,
         millisecs |-> ((seconds.num % seconds.den) * 1000) \div seconds.den]

\* the row appended for frame_files[i + 1], i counted from 0
FrameRow(i, frame_file, rate) ==
    [Timestamp |-> format_timestamp(Quotient(i, rate)),
     TimeSeconds |-> Round2(i, rate),
     FrameNumber |-> i + 1,
     FrameFile |-> frame_file]

\* frame_time = frame["Time (seconds)"]
RowTime(row, rate) == row.TimeSeconds

\* the comparison below with its operands exchanged
AtOrBefore(frame_time, scene_time) == Geq(scene_time, frame_time)

\* if frame_time >= scene["timestamp"]
AtOrAfter(frame_time, scene_time) == Geq(frame_time, scene_time)

RECURSIVE ScanScenesOncePerTime(_, _, _, _, _)
\* the loop below counting events of one timestamp once
ScanScenesOncePerTime(frame_time, scenes, k, scene_number, scene_score) ==
    IF k > Len(scenes) THEN [number |-> scene_number, score |-> scene_score]
    ELSE IF Geq(frame_time, scenes[k].timestamp)
         THEN ScanScenesOncePerTime(
                  frame_time, scenes, k + 1,
                  IF k > 1 /\ Geq(scenes[k - 1].timestamp, scenes[k].timestamp)
                           /\ Geq(scenes[k].timestamp, scenes[k - 1].timestamp)
                  THEN scene_number ELSE scene_number + 1,
                  scenes[k].scene_score)
         ELSE [number |-> scene_number, score |-> scene_score]

RECURSIVE ScanScenes(_, _, _, _, _)
\* for scene in scene_changes: count while the frame is at or after the
\* event, break at the first event it is before
ScanScenes(frame_time, scenes, k, scene_number, scene_score) ==
    IF k > Len(scenes) THEN [number |-> scene_number, score |-> scene_score]
    ELSE IF AtOrAfter(frame_time, scenes[k].timestamp)
         THEN ScanScenes(frame_time, scenes, k + 1, scene_number + 1,
                         scenes[k].scene_score)
         ELSE [number |-> scene_number, score |-> scene_score]

\* the row with its Scene Number and Scene Score
Annotated(row, scenes, rate) ==
    LET found == ScanScenes(RowTime(row, rate), scenes, 1, 1, Zero)
    IN  [Timestamp |-> row.Timestamp,
         TimeSeconds |-> row.TimeSeconds,
         FrameNumber |-> row.FrameNumber,
         FrameFile |-> row.FrameFile,
         SceneNumber |-> found.number,
         SceneScore |-> found.score]

\* {"status": "error", "error": <message>}; str(e) of a CalledProcessError
\* names the command that failed
Failure(message) == [status |-> "error", error |-> message]

\* the maximum below with 0 for a table of no rows
TotalScenesOrZero(rows) ==
    IF rows = <<>> THEN [error |-> "none", max |-> 0]
    ELSE [error |-> "none",
          max |-> CHOOSE m \in {rows[i].SceneNumber : i \in 1..Len(rows)} :
                    \A i \in 1..Len(rows) : rows[i].SceneNumber <= m]

\* df["Scene Number"].max(): a DataFrame built from no rows has no columns,
\* and asking it for one raises KeyError
TotalScenes(rows) ==
    IF rows = <<>> THEN [error |-> "KeyError", max |-> 0]
    ELSE [error |-> "none",
          max |-> CHOOSE m \in {rows[i].SceneNumber : i \in 1..Len(rows)} :
                    \A i \in 1..Len(rows) : rows[i].SceneNumber <= m]

\* the checks before the try block
TableCheckSource ==
    /\ \/ pc = "start" /\ entry \in {Organize, OrganizeExisting}
       \/ pc = "organize" /\ entry = Main
    /\ IF Builder = Organize /\ ~video_exists
       THEN /\ result' = Failure("Video file not found")
            /\ pc' = "returned"
       ELSE IF Builder = OrganizeExisting /\ ~frames_dir.exists
       THEN /\ result' = Failure("Frames directory not found")
            /\ pc' = "returned"
       ELSE /\ pc' = IF Builder = Organize THEN "extract" ELSE "list"
            /\ UNCHANGED result
    /\ UNCHANGED <<entry, runVars, parserVars, bridgeVars, video_exists,
                   ffmpeg_available, attempts, fps, frames_dir, frame_files,
                   frames_data, timestamps, csv_file, html_file>>

\* one more external stage run, with whether it succeeded
Attempted(stage, ok) == Append(attempts, [stage |-> stage, ok |-> ok])

\* os.makedirs(output_dir, exist_ok=True) and the ffmpeg run that extracts
\* the frames (organize_frames_table only); subprocess.run raises
\* FileNotFoundError when there is no ffmpeg to start
ExtractFrames ==
    /\ pc = "extract"
    /\ \E ok \in BOOLEAN, n \in 0..MaxFrames :
         /\ ok => ffmpeg_available
         /\ attempts' = Attempted("frames", ok)
         /\ IF ok
            THEN /\ frames_dir' = Directory(frames_dir.files \cup
                                            {FrameName(k) : k \in 1..n})
                 /\ pc' = "list"
                 /\ UNCHANGED result
            ELSE /\ n = 0
                 /\ frames_dir' = Directory(frames_dir.files)
                 /\ result' = Failure(IF ffmpeg_available
                                      THEN "CalledProcessError: frame extraction"
                                      ELSE "FileNotFoundError: ffmpeg")
                 /\ pc' = "returned"
    /\ UNCHANGED <<entry, runVars, parserVars, bridgeVars, video_exists,
                   ffmpeg_available, fps, frame_files, frames_data,
                   timestamps, csv_file, html_file>>

\* the listing and the loop that builds the rows
EnumerateFrames ==
    /\ pc = "list"
    /\ frame_files' = ListFrames(frames_dir)
    /\ IF fps = 0 /\ frame_files' # <<>>
       THEN /\ result' = Failure("ZeroDivisionError")
            /\ pc' = "returned"
            /\ UNCHANGED <<frames_data, timestamps>>
       ELSE /\ frames_data' = [k \in 1..Len(frame_files') |->
                                 FrameRow(k - 1, frame_files'[k], fps)]
            /\ timestamps' = [k \in 1..Len(frame_files') |-> Quotient(k - 1, fps)]
            /\ pc' = "detect"
            /\ UNCHANGED result
    /\ UNCHANGED <<entry, runVars, parserVars, bridgeVars, video_exists,
                   ffmpeg_available, attempts, fps, frames_dir, csv_file,
                   html_file>>

\* scene_changes = detect_scene_changes(video_path, scene_threshold)
DetectScenes ==
    /\ pc = "detect"
    /\ \E ok \in BOOLEAN :
         LET r == SelectionParse(log)
         IN  /\ ok => ffmpeg_available
             /\ attempts' = Attempted("scenes", ok)
             /\ IF ok /\ r.error = "none"
                THEN /\ scene_changes' = r.events
                     /\ temp_file' = NoFile
                     /\ pc' = "annotate"
                     /\ UNCHANGED <<result, raised>>
                ELSE /\ temp_file' = IF ok THEN log ELSE << <<>> >>
                     /\ raised' = IF ok THEN r.error
                                  ELSE IF ffmpeg_available THEN "CalledProcessError"
                                  ELSE "FileNotFoundError"
                     /\ result' = Failure(IF ok THEN r.error
                                          ELSE IF ffmpeg_available
                                          THEN "CalledProcessError: scene detection"
                                          ELSE "FileNotFoundError: ffmpeg")
                     /\ pc' = "returned"
                     /\ UNCHANGED scene_changes
    /\ UNCHANGED <<entry, runVars, log, bridgeVars, video_exists,
                   ffmpeg_available, fps, frames_dir, frame_files,
                   frames_data, timestamps, csv_file, html_file>>

\* the loop that adds Scene Number and Scene Score to every row
AnnotateFrames ==
    /\ pc = "annotate"
    /\ frames_data' = [k \in 1..Len(frames_data) |->
                         Annotated(frames_data[k], scene_changes, fps)]
    /\ pc' = "export"
    /\ UNCHANGED <<entry, runVars, parserVars, bridgeVars, video_exists,
                   ffmpeg_available, attempts, fps, frames_dir, frame_files,
                   timestamps, csv_file, html_file, result>>

\* df.to_csv(csv_path), create_html_table(df, html_path, video_name) and the
\* dictionary returned, or the one of the except clause
ExportAndReturn ==
    /\ pc = "export"
    /\ csv_file' = << frames_data >>
    /\ html_file' = << frames_data >>
    /\ LET total == TotalScenes(frames_data)
       IN  result' = IF total.error # "none" THEN Failure(total.error)
                     ELSE [status |-> "success",
                           total_frames |-> Len(frames_data),
                           total_scenes |-> total.max]
    /\ pc' = "returned"
    /\ UNCHANGED <<entry, runVars, parserVars, bridgeVars, video_exists,
                   ffmpeg_available, attempts, fps, frames_dir, frame_files,
                   frames_data, timestamps>>

----------------------------------------------------------------------------
(* ffmpeg_video_search (video_processor.py) *)

Search == "ffmpeg_video_search"

\* the analyses asked for one at a time; "frames" with extract_frames=True
SearchTypes == {"metadata", "scenes", "frames"}

\* FFmpegVideoProcessor() and search_video_content: the constructor's check
\* and the check of the video both raise, before the try block; inside it
\* every exception becomes status "error"
SearchOutcome(search_type, available, exists, error) ==
    IF ~available THEN [raised |-> "RuntimeError", result |-> NoResult]
    ELSE IF ~exists THEN [raised |-> "FileNotFoundError", result |-> NoResult]
    ELSE [raised |-> "none",
          result |-> IF error = "none"
                     THEN [status |-> "success", analysis_type |-> search_type]
                     ELSE [status |-> "error", analysis_type |-> search_type,
                           error |-> error]]

\* the exception of the stage run inside the try block, "none" without one
StageError(search_type, ok) ==
    IF ~ok THEN (IF search_type = "metadata" THEN "RuntimeError: Failed to extract metadata"
                 ELSE "CalledProcessError")
    ELSE IF search_type = "scenes" THEN ProcessorParse(log).error
    ELSE "none"

\* one call ffmpeg_video_search(video_path, search_type, ...): what it
\* returns or raises, the stage it ran, and what the stage left behind
SearchCall(search_type, ok, n) ==
    LET reached == ffmpeg_available /\ video_exists
        out == SearchOutcome(search_type, ffmpeg_available, video_exists,
                             StageError(search_type, ok))
    IN  /\ result' = out.result
        /\ raised' = out.raised
        /\ attempts' = IF reached THEN Attempted(search_type, ok) ELSE attempts
        /\ scene_changes' = IF reached /\ search_type = "scenes"
                                /\ out.result.status = "success"
                             THEN ProcessorParse(log).events ELSE scene_changes
        /\ frames_dir' = IF reached /\ search_type = "frames"
                          THEN Directory(frames_dir.files \cup
                                   (IF ok THEN {FrameName(k) : k \in 1..n} ELSE {}))
                          ELSE frames_dir

\* ffmpeg_video_search called by itself
VideoSearch ==
    /\ pc = "start"
    /\ entry = Search
    /\ \E search_type \in SearchTypes, ok \in BOOLEAN, n \in 0..MaxFrames :
         /\ ~ok => n = 0
         /\ SearchCall(search_type, ok, n)
    /\ pc' = IF raised' = "none" THEN "returned" ELSE "failed"
    /\ UNCHANGED <<entry, runVars, log, temp_file, bridgeVars, video_exists,
                   ffmpeg_available, fps, frame_files, frames_data,
                   timestamps, csv_file, html_file>>

----------------------------------------------------------------------------
(* The chained pipeline: main of scene_selection.py *)

\* video_file = input(...).strip(), and the return when nothing was typed
MainPrompt ==
    /\ pc = "start"
    /\ entry = Main
    /\ \E typed \in BOOLEAN : pc' = IF typed THEN "metadata" ELSE "exited"
    /\ UNCHANGED <<entry, runVars, parserVars, tableVars, bridgeVars>>

\* results = ffmpeg_video_search(video_file, search_type="metadata"); main
\* goes on whatever the status
MainMetadata ==
    /\ pc = "metadata"
    /\ \E ok \in BOOLEAN : SearchCall("metadata", ok, 0)
    /\ pc' = IF raised' = "none" THEN "scenes" ELSE "failed"
    /\ UNCHANGED <<entry, runVars, log, temp_file, bridgeVars, video_exists,
                   ffmpeg_available, fps, frame_files, frames_data,
                   timestamps, csv_file, html_file>>

\* results = ffmpeg_video_search(video_file, search_type="scenes", ...); main
\* prints the events on success and goes on whatever the status
MainScenes ==
    /\ pc = "scenes"
    /\ \E ok \in BOOLEAN : SearchCall("scenes", ok, 0)
    /\ pc' = IF raised' = "none" THEN "frames" ELSE "failed"
    /\ UNCHANGED <<entry, runVars, log, temp_file, bridgeVars, video_exists,
                   ffmpeg_available, fps, frame_files, frames_data,
                   timestamps, csv_file, html_file>>

\* results = ffmpeg_video_search(video_file, search_type="frames", ...); main
\* returns when the status is not "success"
MainFrames ==
    /\ pc = "frames"
    /\ \E ok \in BOOLEAN, n \in 0..MaxFrames :
         /\ ~ok => n = 0
         /\ SearchCall("frames", ok, n)
    /\ pc' = IF raised' # "none" THEN "failed"
             ELSE IF result'.status = "success" THEN "organize"
             ELSE "exited"
    /\ UNCHANGED <<entry, runVars, log, temp_file, bridgeVars, video_exists,
                   ffmpeg_available, fps, frame_files, frames_data,
                   timestamps, csv_file, html_file>>

----------------------------------------------------------------------------
(* Scene logs of the table specification: whole records only *)

FrameLines ==
    { <<"frame:", "1", " ", "pts_time:", "0", ".", "1", "2", "5">>,
      <<"frame:", "2", " ", "pts_time:", "0", ".", "3", "3", "3">>,
      <<"frame:", "4", " ", "pts_time:", "0", ".", "6", "6", "7">>,
      <<"frame:", "9", " ", "pts_time:", "1", ".", "5">> }

ScoreLines ==
    { <<"lavfi.", "scene_score=", "0", ".", "4", "2">>,
      <<"lavfi.", "scene_score=", "0", ".", "9">> }

\* the log of k records: frame line, score line, frame line, ...
Records(frame_lines, score_lines) ==
    IF Len(frame_lines) = 0 THEN << <<>> >>
    ELSE [j \in 1..(2 * Len(frame_lines)) |->
            IF j % 2 = 1 THEN frame_lines[(j + 1) \div 2] ELSE score_lines[j \div 2]]

TableLogs ==
    UNION { { Records(f, s) : f \in [1..k -> FrameLines], s \in [1..k -> ScoreLines] } :
            k \in 0..MaxEvents }

\* the directories organize_existing_frames_table may be pointed at
ExistingDirs ==
    {NoDir} \cup
    { Directory({FrameName(k) : k \in 1..n} \cup extra) :
        n \in 0..MaxFrames, extra \in {{}, {OtherFile}} }

InitTable ==
    /\ pc = "start"
    /\ RunsIdle
    /\ entry \in {Organize, OrganizeExisting, Search}
    /\ ffmpeg_available \in BOOLEAN
    /\ log \in IF ffmpeg_available THEN TableLogs ELSE {<< <<>> >>}
    /\ temp_file = NoFile
    /\ scene_changes = <<>>
    /\ raised = "none"
    /\ fps \in IF entry = Search THEN {1} ELSE FpsValues
    /\ attempts = <<>>
    /\ IF entry = OrganizeExisting
       THEN video_exists = TRUE /\ frames_dir \in ExistingDirs
       ELSE video_exists \in BOOLEAN /\ frames_dir = NoDir
    /\ frame_files = <<>>
    /\ frames_data = <<>>
    /\ timestamps = <<>>
    /\ csv_file = NoFile
    /\ html_file = NoFile
    /\ result = NoResult
    /\ BridgeIdle

NextTable ==
    \/ TableCheckSource
    \/ ExtractFrames
    \/ EnumerateFrames
    \/ DetectScenes
    \/ AnnotateFrames
    \/ ExportAndReturn
    \/ VideoSearch

Spec == InitTable /\ [][NextTable]_vars

\* a run of main, for a video that is there or not
InitMain ==
    /\ pc = "start"
    /\ RunsIdle
    /\ entry = Main
    /\ ffmpeg_available \in BOOLEAN
    /\ log \in IF ffmpeg_available THEN TableLogs ELSE {<< <<>> >>}
    /\ temp_file = NoFile
    /\ scene_changes = <<>>
    /\ raised = "none"
    /\ video_exists \in BOOLEAN
    /\ attempts = <<>>
    /\ fps = 1
    /\ frames_dir \in {NoDir, Directory({OtherFile})}
    /\ frame_files = <<>>
    /\ frames_data = <<>>
    /\ timestamps = <<>>
    /\ csv_file = NoFile
    /\ html_file = NoFile
    /\ result = NoResult
    /\ BridgeIdle

\* the three searches, then organize_existing_frames_table step by step
NextMain ==
    \/ MainPrompt
    \/ MainMetadata
    \/ MainScenes
    \/ MainFrames
    \/ TableCheckSource
    \/ EnumerateFrames
    \/ DetectScenes
    \/ AnnotateFrames
    \/ ExportAndReturn

SpecMain == InitMain /\ [][NextMain]_vars

----------------------------------------------------------------------------
(* Two runs of organize_existing_frames_table in one working directory,    *)
(* each on its own video; a step is one file operation                     *)

Concurrent == "two runs of organize_existing_frames_table"

RunIds == {1, 2}

\* video_name, the label of a run
Labels == {"Bun", "Cat"}

\* temp_file = "temp_scene_detection.txt"
TempPath == <<"temp_scene_detection.txt">>

\* frames_output_dir = f"{video_name}_extracted_frames"
FramesPath(label) == <<label, "_extracted_frames">>

\* csv_path = f"{video_name}_frame_table.csv"
CsvPath(label) == <<label, "_frame_table.csv">>

\* html_path = f"{video_name}_frame_table.html"
HtmlPath(label) == <<label, "_frame_table.html">>

\* the files of the working directory
Paths ==
    {TempPath} \cup {CsvPath(l) : l \in Labels} \cup {HtmlPath(l) : l \in Labels}

\* what ffmpeg prints for a run's video: no event, or one
RunLogs ==
    { << <<>> >>,
      Records(<< <<"frame:", "9", " ", "pts_time:", "1", ".", "5">> >>,
              << <<"lavfi.", "scene_score=", "0", ".", "4", "2">> >>),
      Records(<< <<"frame:", "1", " ", "pts_time:", "0", ".", "1", "2", "5">> >>,
              << <<"lavfi.", "scene_score=", "0", ".", "9">> >>) }

\* run r moves on to position next, having touched the path
Touch(r, path, next) ==
    [runs EXCEPT ![r].touched = @ \cup {path}, ![r].pc = next]

\* os.listdir(frames_dir)
RunList ==
    \E r \in RunIds :
        /\ runs[r].pc = "list"
        /\ runs' = Touch(r, FramesPath(runs[r].label), "create")
        /\ UNCHANGED <<pc, entry, parserVars, tableVars, bridgeVars, cwd>>

\* with open(temp_file, "w") as f: pass
RunCreateTemp ==
    \E r \in RunIds :
        /\ runs[r].pc = "create"
        /\ cwd' = [cwd EXCEPT ![TempPath] = << <<>> >>]
        /\ runs' = Touch(r, TempPath, "ffmpeg")
        /\ UNCHANGED <<pc, entry, parserVars, tableVars, bridgeVars>>

\* subprocess.run(cmd, capture_output=True, check=True): ffmpeg writes the
\* run's log to the file, or exits non-zero and the builder returns an error
RunFfmpeg ==
    \E r \in RunIds, ok \in BOOLEAN :
        /\ runs[r].pc = "ffmpeg"
        /\ IF ok
           THEN /\ cwd' = [cwd EXCEPT ![TempPath] = runs[r].log]
                /\ runs' = Touch(r, TempPath, "read")
           ELSE /\ runs' = [runs EXCEPT ![r].pc = "returned",
                                        ![r].status = "CalledProcessError"]
                /\ UNCHANGED cwd
        /\ UNCHANGED <<pc, entry, parserVars, tableVars, bridgeVars>>

\* with open(temp_file, "r") as f: content = f.read(), and the parse loop
RunRead ==
    \E r \in RunIds :
        /\ runs[r].pc = "read"
        /\ IF cwd[TempPath] = NoFile
           THEN runs' = [Touch(r, TempPath, "returned") EXCEPT
                           ![r].status = "FileNotFoundError"]
           ELSE LET parsed == SelectionParse(cwd[TempPath])
                IN  IF parsed.error = "none"
                    THEN runs' = [Touch(r, TempPath, "remove") EXCEPT
                                    ![r].scenes = parsed.events]
                    ELSE runs' = [Touch(r, TempPath, "returned") EXCEPT
                                    ![r].status = parsed.error]
        /\ UNCHANGED <<pc, entry, parserVars, tableVars, bridgeVars, cwd>>

\* if os.path.exists(temp_file): os.remove(temp_file)
RunRemove ==
    \E r \in RunIds :
        /\ runs[r].pc = "remove"
        /\ cwd' = [cwd EXCEPT ![TempPath] = NoFile]
        /\ runs' = Touch(r, TempPath, "export")
        /\ UNCHANGED <<pc, entry, parserVars, tableVars, bridgeVars>>

\* df.to_csv(csv_path) and create_html_table(df, html_path, video_name):
\* the table, of which the events it was annotated with are kept
RunExport ==
    \E r \in RunIds :
        /\ runs[r].pc = "export"
        /\ cwd' = [cwd EXCEPT ![CsvPath(runs[r].label)] = <<runs[r].scenes>>,
                              ![HtmlPath(runs[r].label)] = <<runs[r].scenes>>]
        /\ runs' = [runs EXCEPT
                      ![r].touched = @ \cup {CsvPath(runs[r].label),
                                             HtmlPath(runs[r].label)},
                      ![r].pc = "returned",
                      ![r].status = "success"]
        /\ UNCHANGED <<pc, entry, parserVars, tableVars, bridgeVars>>

InitTwoRuns ==
    /\ pc = "start"
    /\ entry = Concurrent
    /\ log = << <<>> >>
    /\ temp_file = NoFile
    /\ scene_changes = <<>>
    /\ raised = "none"
    /\ TableIdle
    /\ BridgeIdle
    /\ runs \in [RunIds -> [label : Labels, log : RunLogs, pc : {"list"},
                            touched : {{}}, scenes : {<<>>}, status : {"none"}]]
    /\ runs[1].label = "Bun"
    /\ cwd = [path \in Paths |-> NoFile]

NextTwoRuns ==
    \/ RunList
    \/ RunCreateTemp
    \/ RunFfmpeg
    \/ RunRead
    \/ RunRemove
    \/ RunExport

SpecTwoRuns == InitTwoRuns /\ [][NextTwoRuns]_vars

----------------------------------------------------------------------------
(* The narration bridge: script_generator.main *)

Bridge == "script_generator.main"

\* style_map[style_choice], with "KeyError" for a choice that is no key
StyleOfListed(choice) ==
    CASE choice = "1" -> "serious"
      [] choice = "2" -> "funny"
      [] choice = "3" -> "dramatic"
      [] choice = "4" -> "educational"
      [] choice = "5" -> "neutral"
      [] OTHER -> "KeyError"

\* style_map.get(style_choice, "neutral")
StyleOf(choice) ==
    CASE choice = "1" -> "serious"
      [] choice = "2" -> "funny"
      [] choice = "3" -> "dramatic"
      [] choice = "4" -> "educational"
      [] choice = "5" -> "neutral"
      [] OTHER -> "neutral"

\* audience_map.get(audience_choice, "general")
AudienceOf(choice) ==
    CASE choice = "1" -> "children"
      [] choice = "2" -> "adults"
      [] choice = "3" -> "elderly"
      [] choice = "4" -> "general"
      [] OTHER -> "general"

\* the instruction template the if/elif chain on movie_style picks
StyleInstructions(style) ==
    IF style \in {"serious", "funny", "dramatic", "educational"} THEN style
    ELSE "neutral"

\* the instruction template the if/elif chain on target_audience picks
AudienceInstructions(audience) ==
    IF audience \in {"children", "adults", "elderly"} THEN audience
    ELSE "general"

\* os.path.exists(os.path.join(frames_dir, frame_file))
FileExists(dir, frame_file) ==
    frame_file \in DOMAIN dir.state /\ dir.state[frame_file] # "missing"

RECURSIVE PrepareFrames(_, _, _)

\* the loop left at the first missing file
AfterMissingStop(entries, k, dir) == <<>>

\* `continue` after "Frame file ... not found. Skipping."
AfterMissing(entries, k, dir) == PrepareFrames(entries, k + 1, dir)

\* for entry in selected_frames: the entries appended to frames_data
PrepareFrames(entries, k, dir) ==
    IF k > Len(entries) THEN <<>>
    ELSE IF entries[k].frame_file = "" \/ entries[k].timestamp = ""
         THEN PrepareFrames(entries, k + 1, dir)
    ELSE IF ~FileExists(dir, entries[k].frame_file)
         THEN AfterMissing(entries, k, dir)
    ELSE << [timestamp |-> entries[k].timestamp,
             frame_file |-> entries[k].frame_file] >>
         \o PrepareFrames(entries, k + 1, dir)

\* the "not found. Skipping." lines printed by the loop
MissingCount(entries, dir) ==
    Cardinality({k \in 1..Len(entries) :
                    /\ entries[k].frame_file # "" /\ entries[k].timestamp # ""
                    /\ ~FileExists(dir, entries[k].frame_file)})

RECURSIVE BuildContent(_, _, _)
\* analyze_all_frames_together: the image and label appended for every frame
\* whose file encodes to a non-empty string
BuildContent(frames, k, dir) ==
    IF k > Len(frames) THEN <<>>
    ELSE IF dir.state[frames[k].frame_file] = "empty"
         THEN BuildContent(frames, k + 1, dir)
    ELSE << [image |-> frames[k].frame_file, label |-> frames[k].timestamp] >>
         \o BuildContent(frames, k + 1, dir)

\* the prompts: prefix, tone and audience
BridgePrompt ==
    /\ pc = "start"
    /\ entry = Bridge
    /\ IF prefix = ""
       THEN /\ printed' = [printed EXCEPT !.exit = "No prefix provided"]
            /\ pc' = "exited"
            /\ UNCHANGED <<movie_style, target_audience>>
       ELSE /\ movie_style' = StyleOf(style_choice)
            /\ target_audience' = AudienceOf(audience_choice)
            /\ pc' = "prompted"
            /\ UNCHANGED printed
    /\ UNCHANGED <<entry, runVars, parserVars, tableVars, prefix,
                   style_choice, audience_choice, selection_file, image_dir,
                   selected_frames, bridge_frames, request, api_calls,
                   api_raised, storyline, story_file>>

\* the two existence checks and json.load
BridgeLoad ==
    /\ pc = "prompted"
    /\ IF selection_file = NoFile
       THEN /\ printed' = [printed EXCEPT !.exit = "Selected frames file not found"]
            /\ pc' = "exited"
            /\ UNCHANGED selected_frames
       ELSE IF ~image_dir.exists
       THEN /\ printed' = [printed EXCEPT !.exit = "Frames directory not found"]
            /\ pc' = "exited"
            /\ UNCHANGED selected_frames
       ELSE /\ selected_frames' = selection_file[1]
            /\ IF selected_frames' = <<>>
               THEN /\ printed' = [printed EXCEPT !.exit = "No frames found"]
                    /\ pc' = "exited"
               ELSE /\ pc' = "loaded"
                    /\ UNCHANGED printed
    /\ UNCHANGED <<entry, runVars, parserVars, tableVars, prefix,
                   style_choice, audience_choice, movie_style,
                   target_audience, selection_file, image_dir, bridge_frames,
                   request, api_calls, api_raised, storyline, story_file>>

\* the test below taken as never true
NeverEmpty(frames) == FALSE

\* if not frames_data
NoValidFrames(frames) == frames = <<>>

\* the loop that prepares frames_data, and the exit when it stays empty
BridgePrepare ==
    /\ pc = "loaded"
    /\ bridge_frames' = PrepareFrames(selected_frames, 1, image_dir)
    /\ IF NoValidFrames(bridge_frames')
       THEN /\ printed' = [skipped |-> MissingCount(selected_frames, image_dir),
                           exit |-> "No valid frames found to analyze"]
            /\ pc' = "exited"
       ELSE /\ printed' = [printed EXCEPT
                             !.skipped = MissingCount(selected_frames, image_dir)]
            /\ pc' = "prepared"
    /\ UNCHANGED <<entry, runVars, parserVars, tableVars, prefix,
                   style_choice, audience_choice, movie_style,
                   target_audience, selection_file, image_dir,
                   selected_frames, request, api_calls, api_raised,
                   storyline, story_file>>

\* the function below without its except clause: the exception leaves it
Uncaught(e) == [raised |-> e, returned |-> <<>>]

\* except Exception as e: return f"Error: {e}"
Caught(e) == [raised |-> "none", returned |-> <<"Error: ", e>>]

\* storyline = analyze_all_frames_together(frames_data, movie_style,
\* target_audience): the one request, and the text or the error it returns
BridgeAnalyze ==
    /\ pc = "prepared"
    /\ request' = [style |-> StyleInstructions(movie_style),
                   audience |-> AudienceInstructions(target_audience),
                   frames |-> bridge_frames,
                   content |-> BuildContent(bridge_frames, 1, image_dir)]
    /\ api_calls' = api_calls + 1
    /\ \E e \in {"none", "APIConnectionError"} :
         /\ api_raised' = e
         /\ LET r == IF e = "none"
                     THEN [raised |-> "none", returned |-> <<"narration">>]
                     ELSE Caught(e)
            IN  IF r.raised = "none"
                THEN /\ storyline' = r.returned
                     /\ pc' = "analyzed"
                     /\ UNCHANGED raised
                ELSE /\ raised' = r.raised
                     /\ pc' = "failed"
                     /\ UNCHANGED storyline
    /\ UNCHANGED <<entry, runVars, log, temp_file, scene_changes, tableVars,
                   prefix, style_choice, audience_choice, movie_style,
                   target_audience, selection_file, image_dir,
                   selected_frames, bridge_frames, story_file, printed>>

\* the write of <prefix>_storyscript.txt, whose failure is caught and printed
BridgeSave ==
    /\ pc = "analyzed"
    /\ \E ok \in BOOLEAN :
         IF ok
         THEN /\ story_file' = << [label |-> prefix, style |-> movie_style,
                                   audience |-> target_audience,
                                   body |-> storyline] >>
              /\ UNCHANGED printed
         ELSE /\ printed' = [printed EXCEPT !.exit = "Error saving output file"]
              /\ UNCHANGED story_file
    /\ pc' = "saved"
    /\ UNCHANGED <<entry, runVars, parserVars, tableVars, prefix,
                   style_choice, audience_choice, movie_style,
                   target_audience, selection_file, image_dir,
                   selected_frames, bridge_frames, request, api_calls,
                   api_raised, storyline>>

\* <prefix>_storyscript.txt as an earlier run left it
OldStory == << [label |-> "Bun", style |-> "serious", audience |-> "adults",
                body |-> <<"narration">>] >>

\* the frame files a selection document may name
ImageFiles == {"frame_0001.jpg", "frame_0002.jpg", "frame_0003.jpg"}

\* the label the table gives each of them at one frame per second
LabelOf(f) ==
    CASE f = "frame_0001.jpg" -> "00:00:00.000"
      [] f = "frame_0002.jpg" -> "00:00:01.000"
      [] f = "frame_0003.jpg" -> "00:00:02.000"

\* entries of a selection document: whole ones, and two that lack a field
Entries ==
    { [frame_file |-> f, timestamp |-> LabelOf(f)] : f \in ImageFiles } \cup
    { [frame_file |-> "", timestamp |-> "00:00:00.000"],
      [frame_file |-> "frame_0001.jpg", timestamp |-> ""] }

SelectionDocuments ==
    {NoFile} \cup { <<doc>> : doc \in UNION {[1..n -> Entries] : n \in 0..MaxEntries} }

\* the frames directory: missing, or each file missing, an image or empty
ImageDirs ==
    { [exists |-> FALSE] } \cup
    { [exists |-> TRUE, state |-> st] :
        st \in { t \in [ImageFiles -> {"missing", "image", "empty"}] :
                   \A f \in ImageFiles : t[f] = "empty" => f = "frame_0001.jpg" } }

InitBridge ==
    /\ pc = "start"
    /\ RunsIdle
    /\ entry = Bridge
    /\ log = << <<>> >>
    /\ temp_file = NoFile
    /\ scene_changes = <<>>
    /\ raised = "none"
    /\ TableIdle
    /\ prefix \in {"", "Bun"}
    /\ style_choice \in {"2", "9"}
    /\ audience_choice \in {"3", ""}
    /\ movie_style = ""
    /\ target_audience = ""
    /\ selection_file \in SelectionDocuments
    /\ image_dir \in ImageDirs
    /\ selected_frames = <<>>
    /\ bridge_frames = <<>>
    /\ request = <<>>
    /\ api_calls = 0
    /\ api_raised = "none"
    /\ storyline = <<>>
    /\ story_file \in {NoFile, OldStory}
    /\ printed = [skipped |-> 0, exit |-> ""]

NextBridge ==
    \/ BridgePrompt
    \/ BridgeLoad
    \/ BridgePrepare
    \/ BridgeAnalyze
    \/ BridgeSave

SpecBridge == InitBridge /\ [][NextBridge]_vars

----------------------------------------------------------------------------
(* The narration bridge over every answer to its two menus *)

\* what may be typed at "请输入选择 (1-5): ", stripped: the five keys, and
\* answers that are none of them
StyleChoices == {"1", "2", "3", "4", "5", "", "0", "6", "05", "funny"}

\* what may be typed at "请输入选择 (1-4): ", stripped
AudienceChoices == {"1", "2", "3", "4", "", "0", "5", "adults"}

\* one selection document of two entries, the second one's file missing
MenuDocument ==
    << << [frame_file |-> "frame_0001.jpg", timestamp |-> LabelOf("frame_0001.jpg")],
          [frame_file |-> "frame_0002.jpg", timestamp |-> LabelOf("frame_0002.jpg")] >> >>

MenuDir ==
    [exists |-> TRUE,
     state |-> [f \in ImageFiles |-> IF f = "frame_0001.jpg" THEN "image"
                                     ELSE "missing"]]

InitMenu ==
    /\ pc = "start"
    /\ RunsIdle
    /\ entry = Bridge
    /\ log = << <<>> >>
    /\ temp_file = NoFile
    /\ scene_changes = <<>>
    /\ raised = "none"
    /\ TableIdle
    /\ prefix \in {"", "Bun"}
    /\ style_choice \in StyleChoices
    /\ audience_choice \in AudienceChoices
    /\ movie_style = ""
    /\ target_audience = ""
    /\ selection_file \in {NoFile, MenuDocument}
    /\ image_dir = MenuDir
    /\ selected_frames = <<>>
    /\ bridge_frames = <<>>
    /\ request = <<>>
    /\ api_calls = 0
    /\ api_raised = "none"
    /\ storyline = <<>>
    /\ story_file = NoFile
    /\ printed = [skipped |-> 0, exit |-> ""]

SpecMenu == InitMenu /\ [][NextBridge]_vars

----------------------------------------------------------------------------
(* Claims about the frame table *)

\* the rows carry their Scene Number and Scene Score
TableBuilt == pc = "export" \/ (pc = "returned" /\ csv_file # NoFile)

\* the run got as far as the loop that builds the rows
Enumerated ==
    \/ pc \in {"detect", "annotate", "export"}
    \/ /\ pc = "returned"
       /\ entry \in {Organize, OrganizeExisting}
       /\ \/ result.status = "success"
          \/ result.error \notin {"Video file not found",
                                  "Frames directory not found",
                                  "CalledProcessError: frame extraction",
                                  "FileNotFoundError: ffmpeg"}
          \/ result.error = "FileNotFoundError: ffmpeg"
                /\ entry = OrganizeExisting

\* the events are in timestamp order
InTimeOrder(scenes) ==
    \A k \in 1..(Len(scenes) - 1) : Geq(scenes[k + 1].timestamp, scenes[k].timestamp)

\* the time sequence_index / sampling_rate of the k-th row
FrameTime(k) == Quotient(k - 1, fps)

\* the events at or before time t
UpTo(scenes, t) == {k \in 1..Len(scenes) : Geq(t, scenes[k].timestamp)}

Last(S) == CHOOSE k \in S : \A j \in S : j <= k

\* C1: in the table of either builder, whatever the frames and the events
\* (in time order or not), no row has a smaller Scene Number than the row
\* before it.
C1_SceneNumberNeverDecreases ==
    TableBuilt =>
        \A k \in 2..Len(frames_data) :
            frames_data[k].SceneNumber >= frames_data[k - 1].SceneNumber

\* a table over events out of time order in which the Scene Number rises
C1_Witness ==
    /\ TableBuilt
    /\ Len(scene_changes) = 2
    /\ Less(scene_changes[2].timestamp, scene_changes[1].timestamp)
    /\ \E k \in 2..Len(frames_data) :
          frames_data[k].SceneNumber > frames_data[k - 1].SceneNumber

\* C2: for events in time order, every row's Scene Number is 1 plus the
\* number of events at or before the frame's time index / rate, and its Scene
\* Score is the score of the last of them, 0.0 when there is none.
C2_NumberCountsEventsUpToFrame ==
    TableBuilt /\ InTimeOrder(scene_changes) =>
        \A k \in 1..Len(frames_data) :
            LET before == UpTo(scene_changes, FrameTime(k))
            IN  /\ frames_data[k].SceneNumber = 1 + Cardinality(before)
                /\ frames_data[k].SceneScore =
                       IF before = {} THEN Zero
                       ELSE scene_changes[Last(before)].scene_score

\* C3: for events in time order, the j-th event's increment is carried by
\* every frame whose time index / rate is at or after the event's timestamp T
\* (a frame exactly at T included) and by no frame whose time is before T.
C3_IncrementAtFirstFrameAtOrAfter ==
    TableBuilt /\ InTimeOrder(scene_changes) =>
        \A j \in 1..Len(scene_changes), k \in 1..Len(frames_data) :
            IF Geq(FrameTime(k), scene_changes[j].timestamp)
            THEN frames_data[k].SceneNumber >= j + 1
            ELSE frames_data[k].SceneNumber <= j

\* C4: the Scene Number and Scene Score of every row are those the scan gives
\* for the unrounded time index / rate: rounding changes no row's scene.
C4_UnroundedTimeDecidesScene ==
    TableBuilt =>
        \A k \in 1..Len(frames_data) :
            LET found == ScanScenes(FrameTime(k), scene_changes, 1, 1, Zero)
            IN  /\ frames_data[k].SceneNumber = found.number
                /\ frames_data[k].SceneScore = found.score

\* what the enumeration produces for the .jpg files of the directory
RowsAsClaimed ==
    LET names == ListFrames(frames_dir)
    IN  /\ Len(frames_data) = Len(names)
        /\ Len(timestamps) = Len(names)
        /\ \A k \in 1..Len(names) :
              /\ timestamps[k].den > 0
              /\ timestamps[k].num * fps = (k - 1) * timestamps[k].den
              /\ frames_data[k].FrameNumber = k
              /\ frames_data[k].FrameFile = names[k]
        /\ \A k \in 2..Len(names) :
              timestamps[k].den > 0 /\ timestamps[k - 1].den > 0
                  /\ Less(timestamps[k - 1], timestamps[k])

\* C5 as claimed: for every sampling rate >= 0 the enumeration produces one
\* row per frame file, row i with time i / rate and Frame Number i + 1, the
\* times strictly increasing.
C5_Original == Enumerated => RowsAsClaimed

\* C5 as amended: the same for every sampling rate > 0.
C5_RowsForPositiveRate == Enumerated /\ fps > 0 => RowsAsClaimed

\* three or more frames enumerated at 3 frames per second from a directory
\* that also holds a file that is no frame
C5_Witness ==
    /\ Enumerated /\ fps = 3 /\ Len(frames_data) >= 3
    /\ OtherFile \in frames_dir.files

\* C6: organize_existing_frames_table returns status "error" when the
\* directory is missing and when it holds no .jpg file, and never returns
\* "success" for a table of zero frames.
C6_NoFramesIsAnError ==
    entry = OrganizeExisting /\ pc = "returned" =>
        /\ ~frames_dir.exists \/ ListFrames(frames_dir) = <<>>
              => result.status = "error"
        /\ result.status = "success" => result.total_frames > 0

\* the directory exists, holds no .jpg file, and the run went all the way to
\* the return
C6_Witness ==
    /\ entry = OrganizeExisting /\ pc = "returned"
    /\ frames_dir = Directory({OtherFile})
    /\ csv_file # NoFile
    /\ result.status = "error"

\* the two-pointer merge: the events from position p on that are at or
\* before time t are consumed, each adding one and leaving its score
RECURSIVE Advance(_, _, _, _, _)
Advance(t, scenes, p, number, score) ==
    IF p <= Len(scenes) /\ Geq(t, scenes[p].timestamp)
    THEN Advance(t, scenes, p + 1, number + 1, scenes[p].scene_score)
    ELSE [p |-> p, number |-> number, score |-> score]

\* the two-pointer merge over the frames from the k-th on: the pointer p,
\* the running number and the running score pass from frame to frame
RECURSIVE TwoPointerMerge(_, _, _, _, _, _)
TwoPointerMerge(times, scenes, k, p, number, score) ==
    IF k > Len(times) THEN <<>>
    ELSE LET a == Advance(times[k], scenes, p, number, score)
         IN  << [number |-> a.number, score |-> a.score] >>
             \o TwoPointerMerge(times, scenes, k + 1, a.p, a.number, a.score)

\* the time the merge loop reads from each row
RowTimes == [k \in 1..Len(frames_data) |-> RowTime(frames_data[k], fps)]

\* C16: for events in time order (the rows always are), the loop of the code,
\* which scans the events from the first for every row, gives every row the
\* Scene Number and Scene Score that the two-pointer merge, which consumes
\* each event once, gives it for the same row times; events sharing one
\* timestamp each add one.
C16_RescanEqualsTwoPointerMerge ==
    TableBuilt /\ InTimeOrder(scene_changes) =>
        LET merged == TwoPointerMerge(RowTimes, scene_changes, 1, 1, 1, Zero)
        IN  \A k \in 1..Len(frames_data) :
                /\ frames_data[k].SceneNumber = merged[k].number
                /\ frames_data[k].SceneScore = merged[k].score

\* two events at one timestamp with different scores: the Scene Number goes
\* from 1 to 3 between two consecutive rows, and rows follow the 3
C16_Witness ==
    /\ TableBuilt
    /\ Len(scene_changes) = 2
    /\ scene_changes[1].timestamp = scene_changes[2].timestamp
    /\ scene_changes[1].scene_score # scene_changes[2].scene_score
    /\ \E k \in 2..(Len(frames_data) - 1) :
          /\ frames_data[k - 1].SceneNumber = 1
          /\ frames_data[k].SceneNumber = 3
          /\ frames_data[k + 1].SceneNumber = 3
          /\ frames_data[k].SceneScore = scene_changes[2].scene_score

\* the run cannot produce any output: no video, no ffmpeg to start, or a
\* frames directory that is missing or holds no frame
NothingToProduce ==
    \/ ~video_exists
    \/ ~ffmpeg_available
    \/ entry = OrganizeExisting
          /\ (~frames_dir.exists \/ ListFrames(frames_dir) = <<>>)

\* C13: when organize_frames_table, organize_existing_frames_table or
\* ffmpeg_video_search ends a run that could produce no output, it has
\* returned a result whose status is "error" and which carries a message; no
\* exception has escaped to the caller.
C13_FailuresAreReturnedNotRaised ==
    entry \in {Organize, OrganizeExisting, Search}
        /\ pc \in {"returned", "failed"} /\ NothingToProduce
        => /\ pc = "returned"
           /\ result.status = "error"
           /\ result.error # ""

\* C14: within one run no external call is made again after it has
\* failed: the generation service is called at most once, and no stage
\* (metadata probe, scene detection, frame extraction) is run after an
\* earlier run of the same stage has failed.
C14_NoExternalCallReattempted ==
    /\ api_calls <= 1
    /\ \A i, j \in 1..Len(attempts) :
          i < j /\ attempts[i].stage = attempts[j].stage => attempts[i].ok

----------------------------------------------------------------------------
(* Claims about the scene-log parsers *)

\* the (timestamp, score) pairs of a list of events, in order
TimesAndScores(events) ==
    [k \in 1..Len(events) |-> <<events[k].timestamp, events[k].scene_score>>]

HasPtsTime(line) == SearchNumber("pts_time:", line).found

HasSceneScore(line) == SearchNumber("scene_score=", line).found

RECURSIVE PairEvents(_, _)
\* one event for every pair of lines (i, i+1), (i+2, i+3), ... whose first
\* line has a pts_time field and whose second has a scene_score field
PairEvents(lines, i) ==
    IF i + 1 > Len(lines) THEN <<>>
    ELSE (IF HasPtsTime(lines[i]) /\ HasSceneScore(lines[i + 1])
          THEN << <<Float(SearchNumber("pts_time:", lines[i]).int,
                          SearchNumber("pts_time:", lines[i]).frac),
                    Float(SearchNumber("scene_score=", lines[i + 1]).int,
                          SearchNumber("scene_score=", lines[i + 1]).frac)>> >>
          ELSE <<>>) \o PairEvents(lines, i + 2)

AllBlank(content) == \A i \in 1..Len(content) : IsBlank(content[i])

\* C7: whichever parser ran, the events it returns are exactly one per line
\* pair (of the stripped log) that has a pts_time field on its first line and
\* a scene_score field on its second, in the order of the pairs.
C7_EveryFieldedPairYieldsOneEvent ==
    pc = "done" /\ entry \in {Selection, Processor}
        => TimesAndScores(scene_changes) = PairEvents(StripSplit(log), 1)

\* C8: the frame-number field is optional in both parsers: what
\* FFmpegVideoProcessor.detect_scene_changes returns for a log has the same
\* (timestamp, score) sequence as scene_selection.detect_scene_changes returns.
C8_ParsersAgree ==
    pc = "done" /\ entry = Processor
        => TimesAndScores(scene_changes) = TimesAndScores(SelectionParse(log).events)

\* C9: once an empty or white-space-only log has been read and parsed, the
\* result is the empty list and no exception is raised.
C9_BlankLogParsesToNothing ==
    AllBlank(log) /\ entry \in {Selection, Processor}
        /\ pc \notin {"start", "created", "ran"} /\ raised # "CalledProcessError"
        => scene_changes = <<>> /\ raised = "none"

\* a log of several white-space-only lines has been parsed by the class's parser
C9_Witness ==
    /\ pc = "done" /\ entry = Processor
    /\ AllBlank(log) /\ Len(log) >= 2 /\ \E i \in 1..Len(log) : log[i] # <<>>

\* C18: whenever either detect_scene_changes has finished, by returning its
\* events or by raising (ffmpeg's non-zero exit included), the temporary
\* scene-log file it created no longer exists.
C18_TempFileGoneWhenFinished ==
    entry \in {Selection, Processor} /\ pc \in {"done", "failed"}
        => temp_file = NoFile

----------------------------------------------------------------------------
(* Claims about the narration bridge *)

\* the entry has both fields and its frame file is in the directory
Resolves(e) ==
    e.frame_file # "" /\ e.timestamp # "" /\ FileExists(image_dir, e.frame_file)

ResolvedEntries == SelectSeq(selected_frames, Resolves)

NoEntryResolves ==
    \/ selection_file = NoFile
    \/ ~image_dir.exists
    \/ SelectSeq(selection_file[1], Resolves) = <<>>

\* C11: when no entry of the selection document resolves to an existing frame
\* file, no step of the run calls the generation service, none writes or
\* overwrites <prefix>_storyscript.txt, and the run never gets past the
\* preparation of the frames.
C11_NothingResolvesNothingDone ==
    [][NoEntryResolves =>
          /\ api_calls' = 0
          /\ request' = <<>>
          /\ story_file' = story_file
          /\ pc' \notin {"prepared", "analyzed", "saved"}]_vars

\* a document of several entries, one at least naming a missing file, none
\* resolving: the run has exited and the earlier artifact is as it was
C11_Witness ==
    /\ pc = "exited"
    /\ printed.exit = "No valid frames found to analyze"
    /\ Len(selected_frames) >= 2
    /\ printed.skipped >= 1
    /\ story_file = OldStory
    /\ api_calls = 0

\* the write of <prefix>_storyscript.txt failed for a reason of its own
WriteFailed == printed.exit = "Error saving output file"

\* C12: when the generation call raises, no exception leaves the bridge: the
\* function returns "Error: <exception>" in place of the narration, and the
\* artifact the run then writes carries the run label, the tone and the
\* audience chosen at the menus, and that error marker as its body.
C12_GenerationErrorIsWrittenNotRaised ==
    api_raised # "none" =>
        /\ raised = "none" /\ pc \in {"analyzed", "saved"}
        /\ storyline = <<"Error: ", api_raised>>
        /\ pc = "saved" /\ ~WriteFailed =>
              story_file = << [label |-> prefix,
                               style |-> StyleOf(style_choice),
                               audience |-> AudienceOf(audience_choice),
                               body |-> <<"Error: ", api_raised>>] >>

\* the call raised in a run over an earlier artifact; the artifact now holds
\* this run's header (tone funny, audience elderly) and the error marker
C12_Witness ==
    /\ pc = "saved"
    /\ api_raised = "APIConnectionError"
    /\ style_choice = "2" /\ audience_choice = "3"
    /\ story_file \notin {NoFile, OldStory}
    /\ story_file[1].style = "funny" /\ story_file[1].audience = "elderly"
    /\ story_file[1].label = "Bun"
    /\ story_file[1].body[1] = "Error: "

\* the tones of the menu, by the key that selects each
ListedTone ==
    [c \in {"1", "2", "3", "4", "5"} |->
        CASE c = "1" -> "serious" [] c = "2" -> "funny" [] c = "3" -> "dramatic"
          [] c = "4" -> "educational" [] c = "5" -> "neutral"]

\* the audiences of the menu, by the key that selects each
ListedAudience ==
    [c \in {"1", "2", "3", "4"} |->
        CASE c = "1" -> "children" [] c = "2" -> "adults" [] c = "3" -> "elderly"
          [] c = "4" -> "general"]

\* C15: once the menus are answered (a prefix was given), a tone answer among
\* 1-5 has selected the listed tone and any other answer "neutral", an
\* audience answer among 1-4 the listed audience and any other "general"; no
\* exception was raised and the run went on past the menus; the request and
\* the artifact carry exactly the tone and audience selected.
C15_MenuDefaults ==
    prefix # "" /\ pc # "start" =>
        /\ raised = "none"
        /\ printed.exit # "No prefix provided"
        /\ movie_style = IF style_choice \in DOMAIN ListedTone
                         THEN ListedTone[style_choice] ELSE "neutral"
        /\ target_audience = IF audience_choice \in DOMAIN ListedAudience
                             THEN ListedAudience[audience_choice] ELSE "general"
        /\ pc \in {"analyzed", "saved"} =>
              request.style = movie_style /\ request.audience = target_audience
        /\ pc = "saved" /\ story_file # NoFile =>
              story_file[1].style = movie_style
                  /\ story_file[1].audience = target_audience

\* answers that are no key of either menu, and the artifact written for
\* tone neutral and audience general
C15_Witness ==
    /\ pc = "saved"
    /\ style_choice = "6" /\ audience_choice = "0"
    /\ story_file # NoFile
    /\ story_file[1].style = "neutral" /\ story_file[1].audience = "general"
    /\ request.style = "neutral" /\ request.audience = "general"

----------------------------------------------------------------------------
(* Claims about concurrent runs *)

\* C17: two concurrent runs whose labels differ never create, write, read
\* or delete the same path: the paths one has touched and the paths the
\* other has touched have none in common.
C17_DistinctLabelsShareNoPath ==
    entry = Concurrent /\ runs[1].label # runs[2].label
        => runs[1].touched \cap runs[2].touched = {}

====
